---- MODULE Spec2Model ----
(***************************************************************************)
(* Model of the bulk e-mail dispatcher of the Glen AI agent                *)
(* (src/tools/email_sender.ts): EmailSender.sendEmail, the batch loop of   *)
(* EmailSender.sendCampaign, validateEmail and stripHtml.                  *)
(*                                                                         *)
(* Strings that the code inspects character by character (addresses, the   *)
(* message body) are sequences of one-character strings.  An optional      *)
(* field of a TypeScript interface is a sequence of length 0 (absent) or 1 *)
(* (present).                                                              *)
(*                                                                         *)
(* JavaScript runs each synchronous stretch of code to completion, so the  *)
(* continuation of an await only runs once the synchronous code that       *)
(* issued it has finished: the transport settles a send only while         *)
(* sendCampaign is suspended in `await Promise.all(promises)`.             *)
(***************************************************************************)
EXTENDS Integers, Sequences, FiniteSets, TLC

\* ------------------------------------------------------------------ bounds
\* longest recipient list that is enumerated over every address of the pool
MaxShort == 3
\* longest recipient list
MaxRecipients == 25
\* number of calls of one campaign that a transport answers with anything
\* but a well-formed success
MaxFaults == 1
\* longest string handed to validateEmail, over AddressAlphabet
MaxAddrLen == 5
\* number of times validateEmail is called on the same string
MaxValidations == 2
\* longest message body handed to sendEmail, over BodyAlphabet
MaxBodyLen == 4

\* calls made on the database connection
MaxCalls == 3

\* losses of the connection to the database
MaxDrops == 1

\* times the main menu is shown
MaxMenus == 3

\* calls of addLead
MaxAdders == 3

\* ------------------------------------------------------- program constants
batchSize == 10

defaultFrom == "Glen AI Agent <noreply@yourdomain.com>"

\* ------------------------------------------------------------------ inputs
AddrA == <<"a", "@", "x", ".", "c", "o", "m">>
AddrBad == <<"b", "a", "d">>
AddrC == <<"c", "@", "x", ".", "c", "o", "m">>

RecipientPool == <<AddrA, AddrBad, AddrC>>

BodyHtml == <<"<", "p", ">", "h", "i", "<", "/", "p", ">">>

SeqsUpTo(S, n) == UNION {[1..m -> S] : m \in 0..n}

ShortLists == SeqsUpTo({RecipientPool[k] : k \in 1..Len(RecipientPool)}, MaxShort)

\* the list of length n that cycles through the pool
LongList(n) == [p \in 1..n |-> RecipientPool[((p - 1) % Len(RecipientPool)) + 1]]

\* lengths at a batch boundary (a multiple of the batch size, or one more),
\* and the longest length
LongLengths ==
  {n \in (MaxShort + 1)..MaxRecipients : n % batchSize \in {0, 1} \/ n = MaxRecipients}

\* A transport is the injected collaborator behind resend.emails.send.  Its
\* order says which of the sends in flight it may answer next (any of them,
\* the oldest, or the newest); faultCalls are the calls, by call number, that
\* it answers with something else than a well-formed success.
SubsetsUpTo(S, n) == {F \in SUBSET S : Cardinality(F) <= n}

ShortTransports(n) ==
  {[order |-> "any", faultCalls |-> F] : F \in SubsetsUpTo(1..n, MaxFaults)}

\* the first and the last call of the campaign and the calls on either side
\* of the first batch boundary
BoundaryCalls(n) == {1, batchSize, batchSize + 1, n} \cap (1..n)

LongTransports(n) ==
  {[order |-> "any", faultCalls |-> {}]}
  \cup
  {[order |-> o, faultCalls |-> F] :
      o \in {"fifo", "lifo"}, F \in SubsetsUpTo(BoundaryCalls(n), MaxFaults) \ {{}}}

\* the lists on which every combination of the other arguments is tried
ArgumentLists == {<<>>, <<AddrA>>, <<AddrA, AddrBad>>}

Campaign(r, s, c, f, t) ==
  [recipients |-> r, subject |-> s, content |-> c, from |-> f, transport |-> t]

CampaignInputs ==
  UNION {{Campaign(r, "Hi", BodyHtml, <<>>, t) : t \in ShortTransports(Len(r))} :
            r \in ShortLists}
  \cup
  UNION {{Campaign(r, s, c, f, t) :
             s \in {"", "Hi"}, c \in {<<>>, BodyHtml},
             f \in {<<>>, <<"Sales <sales@x.com>">>}, t \in ShortTransports(Len(r))} :
            r \in ArgumentLists}
  \cup
  UNION {{Campaign(LongList(n), "Hi", BodyHtml, <<>>, t) : t \in LongTransports(n)} :
            n \in LongLengths}

\* the strings validateEmail is tried on
AddressAlphabet == {"a", "@", ".", " "}

AddrWithDot == <<"a", "@", "b", ".", "c", "o", "m">>
AddrDotFree == <<"a", "@", "b">>
NotAnAddress == <<"n", "o", "t", "-", "a", "n", "-", "a", "d", "d", "r", "e", "s", "s">>

AddressInputs ==
  SeqsUpTo(AddressAlphabet, MaxAddrLen)
  \cup {AddrA, AddrBad, AddrC, AddrWithDot, AddrDotFree, NotAnAddress}

\* the EmailData sendEmail is tried on
BodyAlphabet == {"<", ">", "p"}

PlainText == <<"h", "i">>

EmailDataInputs ==
  {[to |-> AddrA, subject |-> "Hi", content |-> c, from |-> <<>>, html |-> h, text |-> t] :
      c \in SeqsUpTo(BodyAlphabet, MaxBodyLen) \cup {BodyHtml},
      h \in {<<>>, <<BodyHtml>>}, t \in {<<>>, <<PlainText>>}}

\* ------------------------------------------------------------ pure helpers
IsWhitespace(c) == c \in {" ", "\t", "\n", "\r"}

\* the character class [^\s@]
NotSpaceNorAt(c) == ~IsWhitespace(c) /\ c # "@"

\* the pattern without its \. part: /^[^\s@]+@[^\s@]+$/
validateEmailNoDot(email) ==
  \E a \in 1..Len(email) :
    /\ email[a] = "@"
    /\ a >= 2
    /\ a <= Len(email) - 1
    /\ \A k \in (1..Len(email)) \ {a} : NotSpaceNorAt(email[k])

\* /^[^\s@]+@[^\s@]+\.[^\s@]+$/ : a is the position of the '@', d the
\* position of the '.' that the pattern's \. matches
validateEmail(email) ==
  \E a \in 1..Len(email), d \in 1..Len(email) :
    /\ email[a] = "@"
    /\ email[d] = "."
    /\ a >= 2
    /\ d >= a + 2
    /\ d <= Len(email) - 1
    /\ \A k \in (1..Len(email)) \ {a} : NotSpaceNorAt(email[k])

\* a pattern with the g flag kept in a shared constant: test() leaves the end
\* of the match in lastIndex
SharedGlobalRegex(previous, matched, len) == IF matched THEN len ELSE 0

\* The lastIndex of emailRegex when validateEmail is called again, given the
\* lastIndex at this call, whether the pattern matched and the length of the
\* string: the pattern has no g or y flag and the literal of line 184 makes a
\* new RegExp at every call, so it is 0.
RegexState(previous, matched, len) == 0

\* emailRegex.test(email) for a RegExp whose lastIndex is `start`: the
\* pattern begins with ^, so it only matches from the start of the string
RegexTest(email, start) == start = 0 /\ validateEmail(email)

\* html.replace(/<.*>/g, ''): from the first '<' to the last '>'
stripHtmlGreedy(html) ==
  LET opens == {o \in 1..Len(html) :
                  html[o] = "<" /\ \E c \in (o + 1)..Len(html) : html[c] = ">"}
  IN IF opens = {} THEN html
     ELSE LET first == CHOOSE o \in opens : \A q \in opens : o <= q
              last == CHOOSE c \in 1..Len(html) :
                        html[c] = ">" /\ \A q \in (c + 1)..Len(html) : html[q] # ">"
          IN SubSeq(html, 1, first - 1) \o SubSeq(html, last + 1, Len(html))

\* html.replace(/<[^>]*>/g, '') scanning from position k
RECURSIVE StripFrom(_, _)
StripFrom(html, k) ==
  IF k > Len(html) THEN <<>>
  ELSE IF html[k] = "<" /\ \E m \in (k + 1)..Len(html) : html[m] = ">"
       THEN LET close == CHOOSE m \in (k + 1)..Len(html) :
                            /\ html[m] = ">"
                            /\ \A q \in (k + 1)..(m - 1) : html[q] # ">"
            IN StripFrom(html, close + 1)
       ELSE <<html[k]>> \o StripFrom(html, k + 1)

stripHtml(html) == StripFrom(html, 1)

\* a sender that is overwritten by the default identity
FromAlwaysDefault(from) == defaultFrom

\* emailData.from || this.defaultFrom
FromOrDefault(from) ==
  IF from = <<>> \/ from[1] = "" THEN defaultFrom ELSE from[1]

\* value || fallback for an optional string: absent and empty are falsy
OrElse(value, fallback) ==
  IF value = <<>> \/ value[1] = <<>> THEN fallback ELSE value[1]

\* the message sendEmail hands to resend.emails.send
SendEmailMessage(emailData) ==
  [from |-> FromOrDefault(emailData.from), to |-> <<emailData.to>>,
   subject |-> emailData.subject,
   html |-> OrElse(emailData.html, emailData.content),
   text |-> OrElse(emailData.text, stripHtml(emailData.content))]

\* the message of a send of sendCampaign, which passes to, subject, content
\* and from, and neither html nor text
TransportMessage(to, subj, cont, from) ==
  SendEmailMessage([to |-> to, subject |-> subj, content |-> cont, from |-> from,
                    html |-> <<>>, text |-> <<>>])

\* ------------------------------------------------------ transport answers
\* what resend.emails.send does with call number c: it resolves to
\* {data, error} or it throws / rejects
OkResponse(c) ==
  [kind |-> "result", data |-> <<c>>, error |-> <<>>, isError |-> FALSE, message |-> ""]

FaultResponses ==
  { [kind |-> "result", data |-> <<>>, error |-> <<>>, isError |-> FALSE, message |-> ""],
    [kind |-> "result", data |-> <<>>, error |-> <<"rate limit exceeded">>,
     isError |-> FALSE, message |-> ""],
    [kind |-> "throw", data |-> <<>>, error |-> <<>>, isError |-> TRUE,
     message |-> "network fault"],
    [kind |-> "throw", data |-> <<>>, error |-> <<>>, isError |-> FALSE,
     message |-> "timeout"] }

\* --------------------------------------------------------------- sendEmail
Fulfilled(v) == [state |-> "fulfilled", value |-> v]
Rejected(v) == [state |-> "rejected", value |-> v]

EmailFailure(reason) == [success |-> FALSE, messageId |-> <<>>, error |-> <<reason>>]
EmailSuccess(id) == [success |-> TRUE, messageId |-> id, error |-> <<>>]

PendingPromise == [state |-> "pending", value |-> EmailFailure("")]

\* a sendEmail whose catch block rethrows
SendEmailRethrows(resp) ==
  IF resp.kind = "throw"
  THEN Rejected(EmailFailure(resp.message))
  ELSE IF resp.error # <<>>
       THEN Fulfilled(EmailFailure(resp.error[1]))
       ELSE Fulfilled(EmailSuccess(resp.data))

\* a sendEmail that reports the thrown value itself
SendEmailStringifies(resp) ==
  IF resp.kind = "throw"
  THEN Fulfilled(EmailFailure(resp.message))
  ELSE IF resp.error # <<>>
       THEN Fulfilled(EmailFailure(resp.error[1]))
       ELSE Fulfilled(EmailSuccess(resp.data))

\* a sendEmail that does not test the error of the transport's result
SendEmailIgnoresError(resp) ==
  IF resp.kind = "throw"
  THEN Fulfilled(EmailFailure(IF resp.isError THEN resp.message ELSE "Unknown error"))
  ELSE Fulfilled(EmailSuccess(resp.data))

\* how the promise of sendEmail settles once the transport has answered
SendEmail(resp) ==
  IF resp.kind = "throw"
  THEN Fulfilled(EmailFailure(IF resp.isError THEN resp.message ELSE "Unknown error"))
  ELSE IF resp.error # <<>>
       THEN Fulfilled(EmailFailure(resp.error[1]))
       ELSE Fulfilled(EmailSuccess(resp.data))

\* ------------------------------------------------------------ sendCampaign
\* recipients.slice(from, to) with 0-based bounds
SliceToEnd(list, from, to) ==
  [k \in 1..(Len(list) - from) |-> list[from + k]]

\* a slice that takes the element at index `to` as well
SliceInclusive(list, from, to) ==
  LET end == IF to + 1 < Len(list) THEN to + 1 ELSE Len(list)
  IN [k \in 1..(end - from) |-> list[from + k]]

\* a slice that stops one element early
SliceExclusive(list, from, to) ==
  LET end == IF to - 1 < Len(list) THEN to - 1 ELSE Len(list)
  IN [k \in 1..(end - from) |-> list[from + k]]

RECURSIVE Deduplicated(_)
Deduplicated(list) ==
  IF list = <<>> THEN <<>>
  ELSE LET front == Deduplicated(SubSeq(list, 1, Len(list) - 1))
           last == list[Len(list)]
       IN IF \E m \in 1..Len(front) : front[m] = last THEN front ELSE Append(front, last)

\* a slice that drops the addresses it has already taken
SliceDeduplicated(list, from, to) ==
  LET end == IF to < Len(list) THEN to ELSE Len(list)
  IN Deduplicated([k \in 1..(end - from) |-> list[from + k]])

Slice(list, from, to) ==
  LET end == IF to < Len(list) THEN to ELSE Len(list)
  IN [k \in 1..(end - from) |-> list[from + k]]

\* the map of line 110 has called sendEmail for `issued` members of a batch
\* of `size`; Promise.all is awaited once the map has covered the batch
AwaitsEachSend(issued, size) == issued >= 1

AwaitsAfter(issued, size) == issued = size

\* await Promise.all(promises) resumes when every promise is fulfilled, or
\* as soon as one is rejected
PromiseRaceReady(ps) ==
  \E k \in 1..Len(ps) : ps[k].state # "pending"

PromiseAllReady(ps) ==
  \/ \A k \in 1..Len(ps) : ps[k].state = "fulfilled"
  \/ \E k \in 1..Len(ps) : ps[k].state = "rejected"

PromiseAllValues(ps) == [k \in 1..Len(ps) |-> ps[k].value]

\* results.push(...batchResults)
UnshiftResults(res, batchResults) == batchResults \o res

PushResults(res, batchResults) == res \o batchResults

\* if (i + batchSize < recipients.length)
DelaysAfterEveryBatch(idx, n) == TRUE

NeedsDelay(idx, n) == idx + batchSize < n

VARIABLES
  recipients, subject, content, from,   \* the arguments of sendCampaign
  transport,   \* the transport behind this.resend
  pc,          \* where sendCampaign is
  i,           \* the loop index of line 107
  batch,       \* recipients.slice(i, i + batchSize)
  promises,    \* the promises of the current batch, in map order
  results,     \* the results array
  calls,       \* every message handed to the transport, in call order, with
               \* the position of the recipient it was issued for
  responses,   \* per call: <<>> while in flight, else <<the answer>>
  delays,      \* the loop indices after which this.delay(1000) was called
  probe,       \* the string validateEmail is called on
  verdicts,    \* what the calls of validateEmail on probe returned, in order
  lastIndex,   \* emailRegex.lastIndex at the next call of validateEmail
  emailData,   \* the argument of a direct call of sendEmail
  message,     \* <<>>, or <<the message that call handed to the transport>>
  isConnected,       \* DatabaseConnection.isConnected
  connectionString,  \* DatabaseConnection.connectionString
  mongo,         \* mongoose: the state of its connection and the number of
                 \* connect, disconnect and ping calls it received
  listenerSets,  \* how many times setupEventListeners has run
  mainHandlers,  \* whether main.ts registered its SIGINT and SIGTERM handlers
  tasks,         \* the calls made on the singleton and the signal handlers
                 \* that were started, in invocation order
  clock,         \* the number of connect() and disconnect() invocations
  signal,        \* <<>>, or <<whether isConnected held>> when the signal came
  processExit,   \* <<>> while the process runs, else <<the exit status>>
  env,           \* process.env restricted to the required variables
  mainPc,        \* where main() and the menu loop are
  exitCode,      \* <<>> while the process runs, else <<the exit status>>
  glenAgent,     \* <<>>, or <<"GlenAgent">> once constructed
  connectAttempts,  \* the calls of dbConnection.connect() by initialize()
  menus,         \* how many times the main menu was shown
  handled,       \* the selections handleMenuSelection handled, in order
  leads,         \* the e-mails of the documents of the Lead collection
  adders         \* the calls of addLead

vars == <<recipients, subject, content, from, transport, pc, i, batch, promises,
          results, calls, responses, delays, probe, verdicts, lastIndex,
          emailData, message, isConnected, connectionString, mongo,
          listenerSets, mainHandlers, tasks, clock, signal, processExit, env,
          mainPc, exitCode, glenAgent, connectAttempts, menus, handled, leads,
          adders>>

campaignVars == <<recipients, subject, content, from, transport, pc, i, batch,
                  promises, results, calls, responses, delays>>

validatorVars == <<probe, verdicts, lastIndex>>

messageVars == <<emailData, message>>

dbVars == <<isConnected, connectionString, mongo, listenerSets, mainHandlers,
            tasks, clock, signal, processExit>>

mainVars == <<env, mainPc, exitCode, glenAgent, connectAttempts, menus, handled>>

leadVars == <<leads, adders>>

appVars == <<dbVars, mainVars, leadVars>>

\* no validateEmail call and no direct sendEmail call is under way
PureIdle ==
  /\ probe = <<>>
  /\ verdicts = <<>>
  /\ lastIndex = 0
  /\ emailData = [to |-> <<>>, subject |-> "", content |-> <<>>, from |-> <<>>,
                  html |-> <<>>, text |-> <<>>]
  /\ message = <<>>

\* no call on the database connection has been made
DbIdle ==
  /\ isConnected = FALSE
  /\ connectionString = ""
  /\ mongo = [state |-> "closed", connects |-> 0, disconnects |-> 0,
              pings |-> 0, drops |-> 0]
  /\ listenerSets = 0
  /\ mainHandlers = FALSE
  /\ tasks = <<>>
  /\ clock = 0
  /\ signal = <<>>
  /\ processExit = <<>>

\* main() has not been started
MainIdle ==
  /\ env = [v \in {} |-> <<>>]
  /\ mainPc = "idle"
  /\ exitCode = <<>>
  /\ glenAgent = <<>>
  /\ connectAttempts = 0
  /\ menus = 0
  /\ handled = <<>>

\* no call of addLead has been made
LeadIdle ==
  /\ leads = {}
  /\ adders = <<>>

AppIdle == DbIdle /\ MainIdle /\ LeadIdle

\* no campaign is under way
CampaignIdle ==
  /\ recipients = <<>>
  /\ subject = ""
  /\ content = <<>>
  /\ from = <<>>
  /\ transport = [order |-> "any", faultCalls |-> {}]
  /\ pc = "idle"
  /\ i = 0
  /\ batch = <<>>
  /\ promises = <<>>
  /\ results = <<>>
  /\ calls = <<>>
  /\ responses = <<>>
  /\ delays = <<>>

inputs == <<recipients, subject, content, from, transport>>

Init ==
  /\ \E inp \in CampaignInputs :
       /\ recipients = inp.recipients
       /\ subject = inp.subject
       /\ content = inp.content
       /\ from = inp.from
       /\ transport = inp.transport
  /\ pc = "loop"
  /\ i = 0
  /\ batch = <<>>
  /\ promises = <<>>
  /\ results = <<>>
  /\ calls = <<>>
  /\ responses = <<>>
  /\ delays = <<>>
  /\ PureIdle
  /\ AppIdle

\* for (...; i < recipients.length; ...) { const batch = recipients.slice(...)
LoopEnter ==
  /\ pc = "loop"
  /\ i < Len(recipients)
  /\ batch' = Slice(recipients, i, i + batchSize)
  /\ promises' = <<>>
  /\ pc' = "map"
  /\ UNCHANGED <<validatorVars, messageVars, appVars, inputs, i, results, calls, responses, delays>>

\* the loop condition fails: return results
Return ==
  /\ pc = "loop"
  /\ i >= Len(recipients)
  /\ pc' = "done"
  /\ UNCHANGED <<validatorVars, messageVars, appVars, inputs, i, batch, promises, results, calls, responses, delays>>

\* one callback of batch.map: sendEmail runs up to its await, so the message
\* is handed to the transport and a pending promise is returned
MapSend ==
  /\ pc = "map"
  /\ Len(promises) < Len(batch)
  /\ LET k == Len(promises) + 1
         msg == TransportMessage(batch[k], subject, content, from)
     IN /\ calls' = Append(calls, [message |-> msg, pos |-> i + k])
        /\ responses' = Append(responses, <<>>)
        /\ promises' = Append(promises, PendingPromise)
        /\ pc' = IF AwaitsAfter(k, Len(batch)) THEN "await" ELSE "map"
  /\ UNCHANGED <<validatorVars, messageVars, appVars, inputs, i, batch, results, delays>>

\* the call of the transport for the k-th member of the current batch
CallOf(k) == CHOOSE c \in 1..Len(calls) : calls[c].pos = i + k

\* the sends of the batch being awaited that are in flight
Pending ==
  IF pc = "await" THEN {k \in 1..Len(promises) : promises[k].state = "pending"} ELSE {}

\* the sends in flight that the transport may answer next
Answerable ==
  IF transport.order = "fifo" THEN {k \in Pending : \A m \in Pending : k <= m}
  ELSE IF transport.order = "lifo" THEN {k \in Pending : \A m \in Pending : k >= m}
  ELSE Pending

\* what the transport may answer to call number c
Answers(c) ==
  IF c \in transport.faultCalls THEN FaultResponses ELSE {OkResponse(c)}

\* the transport answers the send of the k-th member of the batch and the
\* rest of sendEmail runs
Settle(k, resp) ==
  /\ pc = "await"
  /\ k \in Answerable
  /\ resp \in Answers(CallOf(k))
  /\ responses' = [responses EXCEPT ![CallOf(k)] = <<resp>>]
  /\ promises' = [promises EXCEPT ![k] = SendEmail(resp)]
  /\ UNCHANGED <<validatorVars, messageVars, appVars, inputs, pc, i, batch, results, calls, delays>>

\* await Promise.all(promises) resumes; results.push; the delay test
BatchDone ==
  /\ pc = "await"
  /\ PromiseAllReady(promises)
  /\ IF \E k \in 1..Len(promises) : promises[k].state = "rejected"
     THEN \* catch (error) { throw error }
          /\ pc' = "rejected"
          /\ UNCHANGED <<i, results, delays>>
     ELSE IF Len(promises) < Len(batch)
     THEN /\ pc' = "map"
          /\ UNCHANGED <<i, results, delays>>
     ELSE /\ results' = PushResults(results, PromiseAllValues(promises))
          /\ IF NeedsDelay(i, Len(recipients))
             THEN /\ delays' = Append(delays, i)
                  /\ pc' = "delay"
                  /\ i' = i
             ELSE /\ delays' = delays
                  /\ pc' = "loop"
                  /\ i' = i + batchSize
  /\ UNCHANGED <<validatorVars, messageVars, appVars, inputs, batch, promises, calls, responses>>

\* the timer of this.delay(1000) fires; i += batchSize
DelayElapsed ==
  /\ pc = "delay"
  /\ pc' = "loop"
  /\ i' = i + batchSize
  /\ UNCHANGED <<validatorVars, messageVars, appVars, inputs, batch, promises, results, calls, responses, delays>>

Next ==
  \/ LoopEnter
  \/ Return
  \/ MapSend
  \/ \E k \in Answerable : \E resp \in Answers(CallOf(k)) : Settle(k, resp)
  \/ BatchDone
  \/ DelayElapsed

Spec == Init /\ [][Next]_vars

\* The steps of sendCampaign itself are taken by the JavaScript engine as
\* soon as they can be; every send is eventually answered by the transport
\* and every timer of this.delay eventually fires.
FairSpec ==
  /\ Spec
  /\ WF_vars(LoopEnter)
  /\ WF_vars(Return)
  /\ WF_vars(MapSend)
  /\ WF_vars(\E k \in Answerable : \E resp \in Answers(CallOf(k)) : Settle(k, resp))
  /\ WF_vars(BatchDone)
  /\ WF_vars(DelayElapsed)

\* ---------------------------------------------------------- validateEmail
ValidatorInit ==
  /\ CampaignIdle
  /\ AppIdle
  /\ probe \in AddressInputs
  /\ verdicts = <<>>
  /\ lastIndex = 0
  /\ emailData = [to |-> <<>>, subject |-> "", content |-> <<>>, from |-> <<>>,
                  html |-> <<>>, text |-> <<>>]
  /\ message = <<>>

\* one call validateEmail(probe)
Validate ==
  /\ Len(verdicts) < MaxValidations
  /\ LET matched == RegexTest(probe, lastIndex)
     IN /\ verdicts' = Append(verdicts, matched)
        /\ lastIndex' = RegexState(lastIndex, matched, Len(probe))
  /\ UNCHANGED <<campaignVars, probe, messageVars, appVars>>

ValidatorNext == Validate

ValidatorSpec == ValidatorInit /\ [][ValidatorNext]_vars

\* ------------------------------------------------- sendEmail, called directly
MessageInit ==
  /\ CampaignIdle
  /\ AppIdle
  /\ probe = <<>>
  /\ verdicts = <<>>
  /\ lastIndex = 0
  /\ emailData \in EmailDataInputs
  /\ message = <<>>

\* sendEmail(emailData) runs up to its await: the message is built and handed
\* to the transport
BuildMessage ==
  /\ message = <<>>
  /\ message' = <<SendEmailMessage(emailData)>>
  /\ UNCHANGED <<campaignVars, validatorVars, emailData, appVars>>

MessageNext == BuildMessage

MessageSpec == MessageInit /\ [][MessageNext]_vars

\* ------------------------------------------------------ db/connection.ts
\* process.env.MONGODB_URI || '' as the constructor read it
ConnectionStrings == {"", "mongodb://localhost/glen"}

Signals == {"SIGINT", "SIGTERM"}

\* a call of op that has not run yet
NewTask(op) ==
  [op |-> op, pc |-> "start", outcome |-> "", connectAt |-> 0,
   disconnectAt |-> 0, attempts |-> 0, pinged |-> FALSE]

\* if (this.isConnected) { ...; return; }
ConnectNeverReturnsEarly(flag) == FALSE

ConnectReturnsEarly(flag) == flag

\* if (!this.isConnected) { ...; return; }
DisconnectReturnsEarly(flag) == ~flag

\* connect(): catch (error) { ...; this.isConnected = false; throw error; }
FlagKeptAfterConnectError(flag) == flag

FlagAfterConnectError(flag) == FALSE

\* healthCheck(): catch (error) { ...; this.isConnected = false; return false; }
FlagKeptAfterPingError(flag) == flag

FlagAfterPingError(flag) == FALSE

\* where a task goes on once its disconnect() has returned: disconnect()
\* itself is over, reconnect() and the signal handlers have a next line
AfterDisconnect(op) == IF op = "disconnect" THEN "returned" ELSE "resume"

\* connect() run by task tk up to its first await, as invocation number at
ConnectBegun(tk, at) ==
  LET stamped == [tk EXCEPT !.connectAt = at]
  IN IF ConnectReturnsEarly(isConnected)
     THEN [task |-> [stamped EXCEPT !.pc = "returned",
                                    !.outcome = "already connected"],
           mongo |-> mongo]
     ELSE IF connectionString = ""
     THEN [task |-> [stamped EXCEPT !.pc = "threw",
                                    !.outcome = "MONGODB_URI is required"],
           mongo |-> mongo]
     ELSE [task |-> [stamped EXCEPT !.pc = "awaitConnect", !.attempts = @ + 1],
           mongo |-> [mongo EXCEPT !.connects = @ + 1]]

\* disconnect() run by task tk up to its first await, as invocation number
\* at, when mongoose has received calls disconnect() calls so far
DisconnectBegun(tk, at, received) ==
  LET stamped == [tk EXCEPT !.disconnectAt = at]
  IN IF DisconnectReturnsEarly(isConnected)
     THEN [task |-> [stamped EXCEPT !.pc = AfterDisconnect(tk.op),
                                    !.outcome = "not connected"],
           disconnects |-> received]
     ELSE [task |-> [stamped EXCEPT !.pc = "awaitDisconnect"],
           disconnects |-> received + 1]

Running == processExit = <<>>

TaskIds == 1..Len(tasks)

\* the calls made by the program, as opposed to the signal handlers
Callers == {t \in TaskIds : tasks[t].op # "signal"}

\* the singleton after construction
Constructed ==
  /\ isConnected = FALSE
  /\ connectionString \in ConnectionStrings
  /\ mongo = [state |-> "closed", connects |-> 0, disconnects |-> 0,
              pings |-> 0, drops |-> 0]
  /\ listenerSets = 0
  /\ tasks = <<>>
  /\ clock = 0
  /\ signal = <<>>
  /\ processExit = <<>>

DbInit ==
  /\ CampaignIdle
  /\ PureIdle
  /\ MainIdle
  /\ LeadIdle
  /\ Constructed
  /\ mainHandlers = TRUE

\* dbConnection.connect() is called
CallConnect ==
  /\ Running
  /\ Cardinality(Callers) < MaxCalls
  /\ LET begun == ConnectBegun(NewTask("connect"), clock + 1)
     IN /\ tasks' = Append(tasks, begun.task)
        /\ mongo' = begun.mongo
  /\ clock' = clock + 1
  /\ UNCHANGED <<isConnected, connectionString, listenerSets, mainHandlers,
                 signal, processExit>>
  /\ UNCHANGED <<campaignVars, validatorVars, messageVars, mainVars, leadVars>>

\* dbConnection.disconnect() is called
CallDisconnect ==
  /\ Running
  /\ Cardinality(Callers) < MaxCalls
  /\ LET begun == DisconnectBegun(NewTask("disconnect"), clock + 1,
                                  mongo.disconnects)
     IN /\ tasks' = Append(tasks, begun.task)
        /\ mongo' = [mongo EXCEPT !.disconnects = begun.disconnects]
  /\ clock' = clock + 1
  /\ UNCHANGED <<isConnected, connectionString, listenerSets, mainHandlers,
                 signal, processExit>>
  /\ UNCHANGED <<campaignVars, validatorVars, messageVars, mainVars, leadVars>>

\* dbConnection.reconnect() is called: it runs up to the await inside
\* disconnect()
CallReconnect ==
  /\ Running
  /\ Cardinality(Callers) < MaxCalls
  /\ LET begun == DisconnectBegun(NewTask("reconnect"), clock + 1,
                                  mongo.disconnects)
     IN /\ tasks' = Append(tasks, begun.task)
        /\ mongo' = [mongo EXCEPT !.disconnects = begun.disconnects]
  /\ clock' = clock + 1
  /\ UNCHANGED <<isConnected, connectionString, listenerSets, mainHandlers,
                 signal, processExit>>
  /\ UNCHANGED <<campaignVars, validatorVars, messageVars, mainVars, leadVars>>

\* dbConnection.healthCheck() is called
CallHealthCheck ==
  /\ Running
  /\ Cardinality(Callers) < MaxCalls
  /\ IF ~isConnected
     THEN /\ tasks' = Append(tasks, [NewTask("healthCheck") EXCEPT
                                       !.pc = "returned", !.outcome = "false"])
          /\ mongo' = mongo
     ELSE /\ tasks' = Append(tasks, [NewTask("healthCheck") EXCEPT
                                       !.pc = "awaitPing", !.pinged = TRUE])
          /\ mongo' = [mongo EXCEPT !.pings = @ + 1]
  /\ UNCHANGED <<isConnected, connectionString, listenerSets, mainHandlers,
                 clock, signal, processExit>>
  /\ UNCHANGED <<campaignVars, validatorVars, messageVars, mainVars, leadVars>>

\* mongoose.connect settles and the rest of connect() runs: on success the
\* flag is set and setupEventListeners() registers the five handlers
MongooseConnectSettles(t, ok) ==
  /\ Running
  /\ t \in TaskIds
  /\ tasks[t].pc = "awaitConnect"
  /\ IF ok
     THEN /\ isConnected' = TRUE
          /\ listenerSets' = listenerSets + 1
          /\ mongo' = [mongo EXCEPT !.state = "open"]
          /\ tasks' = [tasks EXCEPT ![t].pc = "returned",
                                    ![t].outcome = "connected"]
     ELSE /\ isConnected' = FlagAfterConnectError(isConnected)
          /\ listenerSets' = listenerSets
          /\ mongo' = mongo
          /\ tasks' = [tasks EXCEPT ![t].pc = "threw",
                                    ![t].outcome = "connect failed"]
  /\ UNCHANGED <<connectionString, mainHandlers, clock, signal, processExit>>
  /\ UNCHANGED <<campaignVars, validatorVars, messageVars, mainVars, leadVars>>

\* mongoose.disconnect settles and the rest of disconnect() runs. A signal
\* handler has no catch around its await: its rejection is unhandled, which
\* ends the process or is only reported, depending on the Node.js version
MongooseDisconnectSettles(t, ok) ==
  /\ Running
  /\ t \in TaskIds
  /\ tasks[t].pc = "awaitDisconnect"
  /\ IF ok
     THEN /\ isConnected' = FALSE
          /\ mongo' = [mongo EXCEPT !.state = "closed"]
          /\ tasks' = [tasks EXCEPT ![t].pc = AfterDisconnect(tasks[t].op),
                                    ![t].outcome = "disconnected"]
          /\ processExit' = processExit
     ELSE /\ isConnected' = isConnected
          /\ mongo' = mongo
          /\ tasks' = [tasks EXCEPT ![t].pc = "threw",
                                    ![t].outcome = "disconnect failed"]
          /\ IF tasks[t].op = "signal"
             THEN processExit' \in
                    {<<>>, <<[status |-> "1", by |-> "unhandledRejection"]>>}
             ELSE processExit' = processExit
  /\ UNCHANGED <<connectionString, listenerSets, mainHandlers, clock, signal>>
  /\ UNCHANGED <<campaignVars, validatorVars, messageVars, mainVars, leadVars>>

\* the ping settles and the rest of healthCheck() runs; a ping cannot
\* succeed on a closed connection
PingSettles(t, ok) ==
  /\ Running
  /\ t \in TaskIds
  /\ tasks[t].pc = "awaitPing"
  /\ ok => mongo.state = "open"
  /\ IF ok
     THEN /\ isConnected' = isConnected
          /\ tasks' = [tasks EXCEPT ![t].pc = "returned", ![t].outcome = "true"]
     ELSE /\ isConnected' = FlagAfterPingError(isConnected)
          /\ tasks' = [tasks EXCEPT ![t].pc = "returned", ![t].outcome = "false"]
  /\ UNCHANGED <<connectionString, mongo, listenerSets, mainHandlers, clock,
                 signal, processExit>>
  /\ UNCHANGED <<campaignVars, validatorVars, messageVars, mainVars, leadVars>>

\* reconnect() resumes after await this.disconnect() and runs connect() up
\* to its first await
ReconnectConnects(t) ==
  /\ Running
  /\ t \in TaskIds
  /\ tasks[t].pc = "resume"
  /\ tasks[t].op = "reconnect"
  /\ LET begun == ConnectBegun(tasks[t], clock + 1)
     IN /\ tasks' = [tasks EXCEPT ![t] = begun.task]
        /\ mongo' = begun.mongo
  /\ clock' = clock + 1
  /\ UNCHANGED <<isConnected, connectionString, listenerSets, mainHandlers,
                 signal, processExit>>
  /\ UNCHANGED <<campaignVars, validatorVars, messageVars, mainVars, leadVars>>

\* a signal handler of setupEventListeners resumes after
\* await this.disconnect(): process.exit(0)
HandlerExits(t) ==
  /\ Running
  /\ t \in TaskIds
  /\ tasks[t].pc = "resume"
  /\ tasks[t].op = "signal"
  /\ processExit' = <<[status |-> "0", by |-> "connection.ts"]>>
  /\ tasks' = [tasks EXCEPT ![t].pc = "returned"]
  /\ UNCHANGED <<isConnected, connectionString, mongo, listenerSets,
                 mainHandlers, clock, signal>>
  /\ UNCHANGED <<campaignVars, validatorVars, messageVars, mainVars, leadVars>>

\* the connection is lost: mongoose emits 'error' or 'disconnected' and
\* every registered handler clears the flag
ConnectionLost ==
  /\ Running
  /\ mongo.state = "open"
  /\ mongo.drops < MaxDrops
  /\ mongo' = [mongo EXCEPT !.state = "closed", !.drops = @ + 1]
  /\ isConnected' = IF listenerSets > 0 THEN FALSE ELSE isConnected
  /\ UNCHANGED <<connectionString, listenerSets, mainHandlers, tasks, clock,
                 signal, processExit>>
  /\ UNCHANGED <<campaignVars, validatorVars, messageVars, mainVars, leadVars>>

\* the handlers of setupEventListeners, started in registration order: each
\* runs up to the await inside disconnect()
HandlersBegun(n) ==
  [h \in 1..n |->
     DisconnectBegun(NewTask("signal"), clock + h, mongo.disconnects).task]

\* SIGINT or SIGTERM arrives. The listeners run in registration order and
\* the handler of main.ts, registered when main.ts is loaded, is the first:
\* it calls process.exit(0). Without any listener the signal ends the process.
Signal(sig) ==
  /\ Running
  /\ signal = <<>>
  /\ signal' = <<[name |-> sig, connected |-> isConnected]>>
  /\ IF mainHandlers
     THEN /\ processExit' = <<[status |-> "0", by |-> "main.ts"]>>
          /\ UNCHANGED <<tasks, mongo, clock>>
     ELSE IF listenerSets = 0
     THEN /\ processExit' = <<[status |-> sig, by |-> "default"]>>
          /\ UNCHANGED <<tasks, mongo, clock>>
     ELSE /\ processExit' = processExit
          /\ tasks' = tasks \o HandlersBegun(listenerSets)
          /\ mongo' = [mongo EXCEPT !.disconnects =
                         IF DisconnectReturnsEarly(isConnected)
                         THEN @ ELSE @ + listenerSets]
          /\ clock' = clock + listenerSets
  /\ UNCHANGED <<isConnected, connectionString, listenerSets, mainHandlers>>
  /\ UNCHANGED <<campaignVars, validatorVars, messageVars, mainVars, leadVars>>

DbNext ==
  \/ CallConnect
  \/ CallDisconnect
  \/ CallReconnect
  \/ CallHealthCheck
  \/ \E t \in TaskIds : \E ok \in BOOLEAN : MongooseConnectSettles(t, ok)
  \/ \E t \in TaskIds : \E ok \in BOOLEAN : MongooseDisconnectSettles(t, ok)
  \/ \E t \in TaskIds : \E ok \in BOOLEAN : PingSettles(t, ok)
  \/ \E t \in TaskIds : ReconnectConnects(t)
  \/ ConnectionLost

\* the calls made on the singleton while no signal arrives
DbSpec == DbInit /\ [][DbNext]_vars

\* ------------------------------------------------ SIGINT and SIGTERM
\* main.ts registers its handlers when it is run as the program; a script
\* that only imports db/connection has the handlers of setupEventListeners
ShutdownInit ==
  /\ CampaignIdle
  /\ PureIdle
  /\ MainIdle
  /\ LeadIdle
  /\ Constructed
  /\ mainHandlers \in BOOLEAN

\* connect() and reconnect() calls, and a termination signal at any moment
ShutdownNext ==
  \/ CallConnect
  \/ CallReconnect
  \/ \E t \in TaskIds : \E ok \in BOOLEAN : MongooseConnectSettles(t, ok)
  \/ \E t \in TaskIds : \E ok \in BOOLEAN : MongooseDisconnectSettles(t, ok)
  \/ \E t \in TaskIds : ReconnectConnects(t)
  \/ \E t \in TaskIds : HandlerExits(t)
  \/ \E sig \in Signals : Signal(sig)

ShutdownSpec == ShutdownInit /\ [][ShutdownNext]_vars

\* ----------------------------------------------------------------- main.ts
\* const requiredEnvVars = [...]
requiredEnvVars == <<"OPENAI_API_KEY", "RESEND_API_KEY", "MONGODB_URI">>

EnvNames == {requiredEnvVars[n] : n \in 1..Len(requiredEnvVars)}

\* process.env[varName]: <<>> when the variable is unset, else <<its value>>
Environments == [EnvNames -> {<<>>, <<"">>, <<"set">>}]

\* !process.env[varName]
Falsy(value) == value = <<>> \/ value = <<"">>

\* requiredEnvVars.filter(varName => !process.env[varName])
missingVarsOfApiKeys(e) ==
  SelectSeq(SubSeq(requiredEnvVars, 1, 2), LAMBDA varName : Falsy(e[varName]))

missingVars(e) ==
  SelectSeq(requiredEnvVars, LAMBDA varName : Falsy(e[varName]))

\* the choices of the menu prompt
MenuActions ==
  {"send_campaign", "manage_leads", "generate_copy", "analytics", "settings",
   "exit"}

\* the values handleMenuSelection may be called with
Selections == MenuActions \cup {"unknown"}

\* the cases of the switch that await a handler
Handlers == MenuActions \ {"exit"}

\* where handleMenuSelection leaves the program: process.exit(0) in case
\* 'exit'; otherwise the catch block swallows a handler's error and
\* setTimeout(() => showMainMenu(), 2000) is reached
AfterSelectionErrorEscapes(action, outcome) ==
  IF action = "exit" THEN "exited"
  ELSE IF outcome = "throws" THEN "rejected" ELSE "timer"

AfterSelection(action, outcome) ==
  IF action = "exit" THEN "exited" ELSE "timer"

MainInit ==
  /\ CampaignIdle
  /\ PureIdle
  /\ DbIdle
  /\ LeadIdle
  /\ env \in Environments
  /\ mainPc = "start"
  /\ exitCode = <<>>
  /\ glenAgent = <<>>
  /\ connectAttempts = 0
  /\ menus = 0
  /\ handled = <<>>

\* main() up to its first await: the environment check, then new GlenAgent()
\* and initialize(), which at once calls dbConnection.connect()
CheckEnvironment ==
  /\ mainPc = "start"
  /\ IF missingVars(env) # <<>>
     THEN /\ exitCode' = <<1>>
          /\ mainPc' = "exited"
          /\ UNCHANGED <<glenAgent, connectAttempts>>
     ELSE /\ glenAgent' = <<"GlenAgent">>
          /\ connectAttempts' = connectAttempts + 1
          /\ mainPc' = "initialize"
          /\ exitCode' = exitCode
  /\ UNCHANGED <<env, menus, handled>>
  /\ UNCHANGED <<campaignVars, validatorVars, messageVars, dbVars, leadVars>>

\* glenAgent.initialize() settles: showMainMenu() shows the menu, or the
\* catch of main() exits with status 1
Initialized(ok) ==
  /\ mainPc = "initialize"
  /\ IF ok
     THEN /\ menus' = menus + 1
          /\ mainPc' = "prompt"
          /\ exitCode' = exitCode
     ELSE /\ exitCode' = <<1>>
          /\ mainPc' = "exited"
          /\ menus' = menus
  /\ UNCHANGED <<env, glenAgent, connectAttempts, handled>>
  /\ UNCHANGED <<campaignVars, validatorVars, messageVars, dbVars, leadVars>>

\* the prompt answers and handleMenuSelection(action) runs up to the await
\* of a handler; 'exit' and the default case have no await
Select(action) ==
  /\ mainPc = "prompt"
  /\ IF action \in Handlers
     THEN /\ handled' = Append(handled, [action |-> action, outcome |-> "pending"])
          /\ mainPc' = "handling"
          /\ exitCode' = exitCode
     ELSE /\ handled' = Append(handled, [action |-> action, outcome |-> "ok"])
          /\ mainPc' = AfterSelection(action, "ok")
          /\ exitCode' = IF mainPc' = "exited" THEN <<0>> ELSE exitCode
  /\ UNCHANGED <<env, glenAgent, connectAttempts, menus>>
  /\ UNCHANGED <<campaignVars, validatorVars, messageVars, dbVars, leadVars>>

\* the awaited handler returns or throws and the rest of
\* handleMenuSelection runs
HandlerSettles(outcome) ==
  /\ mainPc = "handling"
  /\ handled' = [handled EXCEPT ![Len(handled)].outcome = outcome]
  /\ mainPc' = AfterSelection(handled[Len(handled)].action, outcome)
  /\ UNCHANGED <<env, exitCode, glenAgent, connectAttempts, menus>>
  /\ UNCHANGED <<campaignVars, validatorVars, messageVars, dbVars, leadVars>>

\* the timer of line 113 fires: showMainMenu()
TimerFires ==
  /\ mainPc = "timer"
  /\ menus < MaxMenus
  /\ menus' = menus + 1
  /\ mainPc' = "prompt"
  /\ UNCHANGED <<env, exitCode, glenAgent, connectAttempts, handled>>
  /\ UNCHANGED <<campaignVars, validatorVars, messageVars, dbVars, leadVars>>

MainNext ==
  \/ CheckEnvironment
  \/ \E ok \in BOOLEAN : Initialized(ok)
  \/ \E action \in Selections : Select(action)
  \/ \E outcome \in {"ok", "throws"} : HandlerSettles(outcome)
  \/ TimerFires

MainSpec == MainInit /\ [][MainNext]_vars

\* ------------------------------------------------ LeadManager.addLead
\* the e-mails addLead is called with
LeadEmails == {"ann@glen.io", "bob@glen.io"}

LeadInit ==
  /\ CampaignIdle
  /\ PureIdle
  /\ DbIdle
  /\ MainIdle
  /\ leads \in SUBSET LeadEmails
  /\ adders = <<>>

\* addLead(leadData) is called and runs up to await Lead.findOne(...)
CallAddLead(email) ==
  /\ Len(adders) < MaxAdders
  /\ adders' = Append(adders, [email |-> email, pc |-> "awaitFind",
                               found |-> FALSE, outcome |-> ""])
  /\ UNCHANGED leads
  /\ UNCHANGED <<campaignVars, validatorVars, messageVars, dbVars, mainVars>>

\* the query answers with the collection as it is now: an existing lead
\* makes addLead throw, otherwise new Lead(...) is built and save() is called
FindOneSettles(a) ==
  /\ a \in 1..Len(adders)
  /\ adders[a].pc = "awaitFind"
  /\ IF adders[a].email \in leads
     THEN adders' = [adders EXCEPT ![a].pc = "threw", ![a].found = TRUE,
                       ![a].outcome = "Lead with this email already exists"]
     ELSE adders' = [adders EXCEPT ![a].pc = "awaitSave"]
  /\ UNCHANGED leads
  /\ UNCHANGED <<campaignVars, validatorVars, messageVars, dbVars, mainVars>>

\* save() settles: the unique index on email rejects a second document with
\* the same e-mail, and validation or the server may reject any document
SaveSettles(a, ok) ==
  /\ a \in 1..Len(adders)
  /\ adders[a].pc = "awaitSave"
  /\ ok => adders[a].email \notin leads
  /\ IF ok
     THEN /\ leads' = leads \cup {adders[a].email}
          /\ adders' = [adders EXCEPT ![a].pc = "returned", ![a].outcome = "saved"]
     ELSE /\ leads' = leads
          /\ adders' = [adders EXCEPT ![a].pc = "threw",
                          ![a].outcome = "save rejected"]
  /\ UNCHANGED <<campaignVars, validatorVars, messageVars, dbVars, mainVars>>

LeadNext ==
  \/ \E email \in LeadEmails : CallAddLead(email)
  \/ \E a \in 1..Len(adders) : FindOneSettles(a)
  \/ \E a \in 1..Len(adders) : \E ok \in BOOLEAN : SaveSettles(a, ok)

LeadSpec == LeadInit /\ [][LeadNext]_vars

\* ============================================================== properties
\* the calls of the transport issued for the recipient at position p
CallsFor(p) == {c \in 1..Len(calls) : calls[c].pos = p}

Answered(c) == responses[c] # <<>>

InFlight == {c \in 1..Len(calls) : ~Answered(c)}

\* the batch, counted from 0, that position p belongs to
BatchOf(p) == (p - 1) \div batchSize

\* the outcome sendEmail produced for an answered call: in the results once
\* its batch has been pushed, in the promise of the current batch before
OutcomeOf(c) ==
  IF calls[c].pos <= Len(results)
  THEN results[calls[c].pos]
  ELSE promises[calls[c].pos - i].value

Thrown(c) == Answered(c) /\ responses[c][1].kind = "throw"

\* the answer to call c makes sendEmail report a failure
FailedCall(c) ==
  Answered(c) /\ (responses[c][1].kind = "throw" \/ responses[c][1].error # <<>>)

DelaysElapsed == Len(delays) - (IF pc = "delay" THEN 1 ELSE 0)

Malformed == {p \in 1..Len(recipients) : ~validateEmail(recipients[p])}

\* ---------------------------------------------------------------------- C1
\* C1: when sendCampaign returns, results has one outcome per recipient and
\* the outcome at position p is the outcome of the send that was issued for
\* recipients[p], whatever the order in which the transport answered.
C1_OrderPreserved ==
  pc = "done" =>
    /\ Len(results) = Len(recipients)
    /\ \A p \in 1..Len(recipients) :
         \E c \in CallsFor(p) :
           /\ calls[c].message.to = <<recipients[p]>>
           /\ Answered(c)
           /\ results[p] = SendEmail(responses[c][1]).value

\* a campaign of more than one batch whose sends were answered newest first
C1_Witness ==
  /\ pc = "done"
  /\ transport.order = "lifo"
  /\ Len(recipients) > batchSize
  /\ Len(results) = Len(recipients)

\* ---------------------------------------------------------------------- C2
\* C2: no recipient that fails validateEmail is handed to the transport, and
\* each such recipient gets the outcome Failure("invalid address").
C2_ValidatedBeforeTransport ==
  /\ \A c \in 1..Len(calls) : validateEmail(calls[c].message.to[1])
  /\ pc = "done" =>
       \A p \in Malformed :
         p <= Len(results) /\ results[p] = EmailFailure("invalid address")

\* ---------------------------------------------------------------------- C3
\* C3: with a transport that always succeeds, a list with exactly one
\* malformed address returns Failure("invalid address") at that position and
\* a Success at every other position.
C3_PartialFailureIsolation ==
  (pc = "done" /\ transport.faultCalls = {} /\ Cardinality(Malformed) = 1) =>
    \A p \in 1..Len(recipients) :
      /\ p <= Len(results)
      /\ IF p \in Malformed
         THEN results[p] = EmailFailure("invalid address")
         ELSE results[p].success

\* ---------------------------------------------------------------------- C4
\* C4: a failed send never stops the campaign: sendCampaign does not reject,
\* and when it is over every recipient, of every batch, has had its send
\* handed to the transport.
C4_NoShortCircuit ==
  /\ pc # "rejected"
  /\ pc = "done" => \A p \in 1..Len(recipients) : CallsFor(p) # {}

\* a finished campaign of more than one batch whose first send failed
C4_Witness ==
  /\ pc = "done"
  /\ Len(recipients) > batchSize
  /\ Len(calls) = Len(recipients)
  /\ FailedCall(1)

\* ---------------------------------------------------------------------- C5
\* C5 as stated: a fault thrown by the transport becomes a Failure outcome
\* whose reason is the description of the fault, and sendCampaign never
\* rejects.
C5_FaultDescriptionKept ==
  /\ pc # "rejected"
  /\ \A c \in 1..Len(calls) :
       Thrown(c) => OutcomeOf(c) = EmailFailure(responses[c][1].message)

\* C5 amended: a fault thrown by the transport becomes a Failure outcome whose
\* reason is the message of the fault when the fault is an Error and the text
\* "Unknown error" when it is any other value, and sendCampaign never rejects.
C5_FaultConverted ==
  /\ pc # "rejected"
  /\ \A c \in 1..Len(calls) :
       Thrown(c) =>
         OutcomeOf(c) = EmailFailure(IF responses[c][1].isError
                                     THEN responses[c][1].message
                                     ELSE "Unknown error")

\* a returned campaign in which the transport threw an Error for one send
C5_Witness ==
  /\ pc = "done"
  /\ \E c \in 1..Len(calls) : Thrown(c) /\ responses[c][1].isError

\* ---------------------------------------------------------------------- C6
\* C6: a call with an empty recipient list, an empty subject or an empty body
\* fails before any batch starts: no send is issued and no result returned.
C6_CallerErrorFailsFast ==
  (recipients = <<>> \/ subject = "" \/ content = <<>>) =>
    (calls = <<>> /\ pc # "done")

\* ---------------------------------------------------------------------- C7
\* C7: a returned campaign of n >= 1 recipients has made ceil(n/10) - 1
\* delays, the b-th of them after the b-th batch, and none after the last
\* batch, whatever the outcomes of the sends.
C7_BatchThrottle ==
  (pc = "done" /\ Len(recipients) >= 1) =>
    /\ Len(delays) = ((Len(recipients) + batchSize - 1) \div batchSize) - 1
    /\ \A b \in 1..Len(delays) : delays[b] = (b - 1) * batchSize

\* a returned campaign of three batches, with a failed send, and two delays
C7_Witness ==
  /\ pc = "done"
  /\ Len(recipients) > 2 * batchSize
  /\ Len(delays) = 2
  /\ \E c \in 1..Len(calls) : FailedCall(c)

\* ---------------------------------------------------------------------- C8
\* C8: whenever a send of batch b has been started, every send of the earlier
\* batches has been answered and the b delays that follow them have elapsed.
C8_BatchBarrier ==
  \A c \in 1..Len(calls) :
    /\ \A d \in 1..Len(calls) :
         BatchOf(calls[d].pos) < BatchOf(calls[c].pos) => Answered(d)
    /\ DelaysElapsed >= BatchOf(calls[c].pos)

\* the first send of the second batch has just been started
C8_Witness ==
  /\ pc = "map"
  /\ Len(calls) = batchSize + 1
  /\ InFlight = {batchSize + 1}

\* ---------------------------------------------------------------------- C9
\* C9: at most batchSize sends are in flight at any time.
C9_BoundedConcurrency == Cardinality(InFlight) <= batchSize

\* a full batch in flight, in a campaign that has more recipients than that
C9_Witness ==
  /\ Cardinality(InFlight) = batchSize
  /\ Len(recipients) > batchSize

\* --------------------------------------------------------------------- C10
\* C10: a send is only started while no send of its batch has been answered,
\* and when sendCampaign begins to await the batch every member of the batch
\* has been started.
C10_AllStartedBeforeAwait ==
  [][/\ calls' # calls => \A k \in 1..Len(promises) : promises[k].state = "pending"
     /\ (pc # "await" /\ pc' = "await") =>
          /\ Len(promises') = Len(batch')
          /\ \A k \in 1..Len(batch') :
               \E c \in 1..Len(calls') : calls'[c].pos = i' + k]_vars

\* sendCampaign awaits a full batch of which no send has been answered yet
C10_Witness ==
  /\ pc = "await"
  /\ Len(promises) = batchSize
  /\ \A k \in 1..Len(promises) : promises[k].state = "pending"

\* --------------------------------------------------------------------- C11
\* C11: no recipient position ever has more than one call of the transport,
\* whatever the transport answered, and a returned campaign has made exactly
\* one call per position.
C11_NoImplicitRetry ==
  /\ \A p \in 1..Len(recipients) : Cardinality(CallsFor(p)) <= 1
  /\ Len(calls) <= Len(recipients)
  /\ pc = "done" => Len(calls) = Len(recipients)

\* a returned campaign with a failed send and one call per position
C11_Witness ==
  /\ pc = "done"
  /\ \E c \in 1..Len(calls) : FailedCall(c)
  /\ \A p \in 1..Len(recipients) : Cardinality(CallsFor(p)) = 1

\* --------------------------------------------------------------------- C12
\* C12: for an answer {data, error} of the transport, the outcome is a Success
\* with the identifier of data when there is no error, and a Failure whose
\* reason is the message of the error when there is one.
C12_OutcomeMapping ==
  \A c \in 1..Len(calls) :
    (Answered(c) /\ responses[c][1].kind = "result") =>
      IF responses[c][1].error = <<>>
      THEN /\ OutcomeOf(c).success
           /\ OutcomeOf(c).messageId = responses[c][1].data
           /\ OutcomeOf(c).error = <<>>
      ELSE /\ ~OutcomeOf(c).success
           /\ OutcomeOf(c).error = responses[c][1].error
           /\ OutcomeOf(c).messageId = <<>>

\* a returned campaign with an error result and a success with an identifier
C12_Witness ==
  /\ pc = "done"
  /\ \E c, d \in 1..Len(calls) :
       /\ responses[c][1].kind = "result" /\ responses[c][1].error # <<>>
       /\ responses[d][1].kind = "result" /\ responses[d][1].data # <<>>
       /\ ~results[calls[c].pos].success
       /\ results[calls[d].pos].success

\* --------------------------------------------------------------------- C13
\* C13: every outcome is a Success with a messageId and no error, or a Failure
\* with an error and no messageId, for every answer of the transport.
C13_ExactlyOneVariant ==
  \A c \in 1..Len(calls) :
    Answered(c) =>
      IF OutcomeOf(c).success
      THEN OutcomeOf(c).messageId # <<>> /\ OutcomeOf(c).error = <<>>
      ELSE OutcomeOf(c).error # <<>> /\ OutcomeOf(c).messageId = <<>>

\* --------------------------------------------------------------------- C14
\* C14: when every send is eventually answered and every delay timer
\* eventually fires, sendCampaign eventually returns its results.
C14_Terminates == <>(pc = "done")

\* a returned campaign of three batches with as many results as recipients
C14_Witness ==
  /\ pc = "done"
  /\ Len(recipients) > 2 * batchSize
  /\ Len(results) = Len(recipients)
  /\ Len(delays) = 2

\* --------------------------------------------------------------------- C15
\* C15: every batch is the slice of the recipients that starts at a multiple
\* of batchSize, has batchSize members unless it is the last one, which has
\* between 1 and batchSize; the addresses handed to the transport, in call
\* order, are the recipient list.
C15_Partitioning ==
  /\ pc \in {"map", "await", "delay"} =>
       /\ Len(batch) \in 1..batchSize
       /\ i % batchSize = 0
       /\ Len(batch) < batchSize => i + Len(batch) = Len(recipients)
       /\ i + Len(batch) <= Len(recipients)
       /\ \A k \in 1..Len(batch) : batch[k] = recipients[i + k]
  /\ pc = "done" =>
       [c \in 1..Len(calls) |-> calls[c].message.to[1]] = recipients

\* the last batch of a campaign of three batches, shorter than batchSize
C15_Witness ==
  /\ pc = "await"
  /\ i = 2 * batchSize
  /\ Len(batch) < batchSize
  /\ i + Len(batch) = Len(recipients)

\* --------------------------------------------------------------------- C16
\* C16: in a returned campaign an address that occurs m times has m calls of
\* the transport and m outcomes, and two occurrences have separate calls, each
\* outcome following from the answer to its own call.
C16_DuplicatesSentIndependently ==
  pc = "done" =>
    \A p \in 1..Len(recipients) :
      LET occ == {q \in 1..Len(recipients) : recipients[q] = recipients[p]}
      IN /\ Cardinality({c \in 1..Len(calls) : calls[c].message.to = <<recipients[p]>>})
              = Cardinality(occ)
         /\ occ \subseteq 1..Len(results)
         /\ \A q \in occ \ {p} :
              \E c \in CallsFor(p), d \in CallsFor(q) :
                /\ c # d
                /\ results[p].success = ~FailedCall(c)
                /\ results[q].success = ~FailedCall(d)

\* an address listed twice whose two sends ended differently
C16_Witness ==
  /\ pc = "done"
  /\ \E p, q \in 1..Len(results) :
       /\ p # q
       /\ recipients[p] = recipients[q]
       /\ results[p].success
       /\ ~results[q].success

\* --------------------------------------------------------------------- C19
\* C19: every message handed to the transport has the default identity as its
\* from field when sendCampaign got no sender, and the given sender otherwise.
C19_SenderDefaulting ==
  \A c \in 1..Len(calls) :
    calls[c].message.from = (IF from = <<>> THEN defaultFrom ELSE from[1])

\* two messages of a campaign with a sender carry that sender
C19_Witness ==
  /\ from # <<>>
  /\ Len(calls) >= 2
  /\ \A c \in 1..Len(calls) : calls[c].message.from = from[1]

\* --------------------------------------------------------------------- C17
\* s is local-part '@' domain: both parts non-empty, without whitespace and
\* without a further '@'
TwoPartGrammar(s) ==
  \E a \in 1..Len(s) :
    LET localPart == SubSeq(s, 1, a - 1)
        domain == SubSeq(s, a + 1, Len(s))
    IN /\ s[a] = "@"
       /\ localPart # <<>>
       /\ domain # <<>>
       /\ \A k \in 1..Len(localPart) : localPart[k] \notin {"@", " ", "\t", "\n", "\r"}
       /\ \A k \in 1..Len(domain) : domain[k] \notin {"@", " ", "\t", "\n", "\r"}

\* the part of s after its first '@' has a '.' with a character on either side
DomainHasInnerDot(s) ==
  \E a \in 1..Len(s) :
    /\ s[a] = "@"
    /\ \A k \in 1..(a - 1) : s[k] # "@"
    /\ \E d \in (a + 1)..Len(s) :
         /\ s[d] = "."
         /\ SubSeq(s, a + 1, d - 1) # <<>>
         /\ SubSeq(s, d + 1, Len(s)) # <<>>

\* C17 as stated: validateEmail returns true exactly for the strings of the
\* two-part grammar, so it accepts a dot-free domain such as "a@b".
C17_ExactlyTwoPartGrammar ==
  \A k \in 1..Len(verdicts) : verdicts[k] = TwoPartGrammar(probe)

\* C17 amended: validateEmail returns true exactly for the strings of the
\* two-part grammar whose domain has a '.' that is neither its first nor its
\* last character; it rejects every other string, "a@b" included.
C17_TwoPartGrammarWithDot ==
  \A k \in 1..Len(verdicts) :
    verdicts[k] = (TwoPartGrammar(probe) /\ DomainHasInnerDot(probe))

\* validateEmail has rejected the dot-free "a@b"
C17_Witness ==
  /\ probe = AddrDotFree
  /\ verdicts # <<>>
  /\ ~verdicts[1]

\* --------------------------------------------------------------------- C18
\* C18: every call of validateEmail on a string returns what the first call
\* on it returned and leaves the pattern's state as it was; the result is true
\* for "a@b.com" and false for "not-an-address" and for the empty string.
C18_ValidatorPure ==
  /\ lastIndex = 0
  /\ \A k \in 1..Len(verdicts) :
       /\ verdicts[k] = verdicts[1]
       /\ probe = AddrWithDot => verdicts[k]
       /\ probe \in {NotAnAddress, <<>>} => ~verdicts[k]

\* "a@b.com" has been validated MaxValidations times, with true every time
C18_Witness ==
  /\ probe = AddrWithDot
  /\ Len(verdicts) = MaxValidations
  /\ \A k \in 1..Len(verdicts) : verdicts[k]

\* --------------------------------------------------------------------- C20
\* position k of body is inside a '<' ... '>' span: a '<' at or before k with
\* no '>' between it and k, and a '>' at or after k that closes it
InTag(body, k) ==
  \E o \in 1..k :
    /\ body[o] = "<"
    /\ \A q \in o..(k - 1) : body[q] # ">"
    /\ \E c \in k..Len(body) : c > o /\ body[c] = ">"

RECURSIVE KeptUpTo(_, _)
\* the characters of body[1..n] that are in no span, in order
KeptUpTo(body, n) ==
  IF n = 0 THEN <<>>
  ELSE IF InTag(body, n) THEN KeptUpTo(body, n - 1)
       ELSE Append(KeptUpTo(body, n - 1), body[n])

\* C20: without a separate text the text handed to the transport is the body
\* without its '<' ... '>' spans; a separate text is used as it is; without a
\* separate html the html handed to the transport is the body.
C20_PlainTextFallback ==
  message # <<>> =>
    /\ emailData.text = <<>> =>
         message[1].text = KeptUpTo(emailData.content, Len(emailData.content))
    /\ emailData.text # <<>> => message[1].text = emailData.text[1]
    /\ emailData.html = <<>> => message[1].html = emailData.content

\* the text of "<p>hi</p>" sent without a separate text is "hi"
C20_Witness ==
  /\ message # <<>>
  /\ emailData.content = BodyHtml
  /\ emailData.text = <<>>
  /\ emailData.html = <<>>
  /\ message[1].text = <<"h", "i">>
  /\ message[1].html = BodyHtml

\* ---------------------------------------------------- database connection
\* every call made so far has returned or thrown
Settled == \A t \in TaskIds : tasks[t].pc \in {"returned", "threw"}

\* a connect() is invoked in this step
ConnectInvoked == \E t \in 1..Len(tasks') : tasks'[t].connectAt > clock

\* a disconnect() is invoked in this step
DisconnectInvoked == \E t \in 1..Len(tasks') : tasks'[t].disconnectAt > clock

\* C22: when only connect() and disconnect() calls were made, none of them
\* failed, the connection was never lost and every call has settled, a
\* connect() that returned and after whose invocation no disconnect() was
\* invoked leaves isConnected true and the mongoose connection open.
C22_SuccessfulConnectEffective ==
  \A t \in TaskIds :
    ( /\ Settled
      /\ \A u \in TaskIds : /\ tasks[u].op \in {"connect", "disconnect"}
                            /\ tasks[u].pc = "returned"
      /\ mongo.drops = 0
      /\ tasks[t].op = "connect"
      /\ \A u \in TaskIds : tasks[u].disconnectAt < tasks[t].connectAt )
    => (isConnected /\ mongo.state = "open")

\* C23: at no moment are two calls awaiting mongoose.connect, that is, a
\* connect() invoked while another one is awaiting mongoose.connect does not
\* call mongoose.connect again.
C23_SingleConnectionAttempt ==
  Cardinality({t \in TaskIds : tasks[t].pc = "awaitConnect"}) <= 1

\* C24: a connect() invoked while isConnected is true returns without
\* calling mongoose.connect, without registering listeners and with
\* isConnected still true; a disconnect() invoked while isConnected is false
\* calls mongoose.disconnect not at all and changes nothing of the connection.
C24_IdempotentOnceConnected ==
  [][ /\ (isConnected /\ ConnectInvoked) =>
           /\ mongo' = mongo
           /\ listenerSets' = listenerSets
           /\ isConnected'
           /\ \A t \in 1..Len(tasks') :
                tasks'[t].connectAt > clock => tasks'[t].pc = "returned"
      /\ (~isConnected /\ DisconnectInvoked) =>
           /\ mongo' = mongo
           /\ listenerSets' = listenerSets
           /\ ~isConnected'
           /\ \A t \in 1..Len(tasks') :
                tasks'[t].disconnectAt > clock =>
                  tasks'[t].pc \in {"returned", "resume"} ]_vars

\* a connect() found the connection connected and a disconnect() found it
\* not connected
C24_Witness ==
  /\ \E t \in TaskIds : /\ tasks[t].op = "connect"
                        /\ tasks[t].outcome = "already connected"
  /\ \E t \in TaskIds : /\ tasks[t].op = "disconnect"
                        /\ tasks[t].outcome = "not connected"

\* C25: setupEventListeners has run at most once, so each of the
\* 'connected', 'error', 'disconnected', SIGINT and SIGTERM handlers is
\* installed at most one time.
C25_ListenersRegisteredOnce == listenerSets <= 1

\* C26: with an empty connection string every connect() throws and
\* mongoose.connect is never called; when mongoose.connect rejects, connect()
\* throws and isConnected is false; when mongoose.disconnect rejects,
\* disconnect() throws and isConnected keeps its value; and a reconnect()
\* whose disconnect step throws is over without having invoked connect().
C26_FailuresReported ==
  [][ /\ connectionString = "" =>
           /\ mongo'.connects = 0
           /\ \A t \in 1..Len(tasks') :
                tasks'[t].connectAt > 0 =>
                  /\ tasks'[t].pc = "threw"
                  /\ tasks'[t].outcome = "MONGODB_URI is required"
      /\ \A t \in TaskIds :
           /\ (tasks[t].pc = "awaitConnect"
                 /\ tasks'[t].outcome = "connect failed") =>
                (tasks'[t].pc = "threw" /\ ~isConnected')
           /\ (tasks[t].pc = "awaitDisconnect"
                 /\ tasks'[t].outcome = "disconnect failed") =>
                /\ tasks'[t].pc = "threw"
                /\ isConnected' = isConnected
                /\ tasks'[t].connectAt = 0
                /\ mongo'.connects = mongo.connects
           /\ tasks[t].pc = "threw" => tasks'[t] = tasks[t] ]_vars

\* mongoose.connect rejected for one call although another connect() had
\* succeeded, and the disconnect step of a reconnect() threw
C26_Witness ==
  /\ \E t \in TaskIds : tasks[t].outcome = "connect failed"
  /\ \E t \in TaskIds : /\ tasks[t].op = "reconnect"
                        /\ tasks[t].outcome = "disconnect failed"

\* C27: healthCheck() never throws; invoked while isConnected is false it
\* returns false without a ping; a failed ping makes it return false with
\* isConnected false, and a connect() invoked while isConnected is false
\* calls mongoose.connect; it returns true only after a ping that it issued
\* because isConnected was true and that succeeded.
C27_HealthCheckNeverThrows ==
  [][ /\ \A t \in 1..Len(tasks') :
           tasks'[t].op = "healthCheck" =>
             /\ tasks'[t].pc \in {"awaitPing", "returned"}
             /\ tasks'[t].pc = "returned" => tasks'[t].outcome \in {"true", "false"}
             /\ tasks'[t].outcome = "true" => tasks'[t].pinged
      /\ \A t \in 1..Len(tasks') :
           (t > Len(tasks) /\ tasks'[t].op = "healthCheck") =>
             /\ tasks'[t].pinged = isConnected
             /\ ~isConnected =>
                  /\ tasks'[t].outcome = "false"
                  /\ mongo'.pings = mongo.pings
      /\ \A t \in TaskIds :
           (tasks[t].pc = "awaitPing" /\ tasks'[t].pc # "awaitPing") =>
             /\ tasks'[t].outcome = "true" => (mongo.state = "open" /\ isConnected' = isConnected)
             /\ tasks'[t].outcome = "false" => ~isConnected'
      /\ (~isConnected /\ connectionString # "" /\ ConnectInvoked) =>
           mongo'.connects = mongo.connects + 1 ]_vars

\* a ping failed while the flag was set, and the connect() that followed
\* called mongoose.connect
C27_Witness ==
  \E t \in TaskIds : \E u \in TaskIds :
    /\ t < u
    /\ tasks[t].op = "healthCheck"
    /\ tasks[t].pinged
    /\ tasks[t].outcome = "false"
    /\ tasks[u].op = "connect"
    /\ tasks[u].attempts = 1

\* C28: when the process has exited after a signal that arrived while the
\* database was connected, the mongoose connection is closed and no
\* disconnect is pending.
C28_DisconnectBeforeExit ==
  (processExit # <<>> /\ signal # <<>> /\ signal[1].connected) =>
    /\ mongo.state = "closed"
    /\ \A t \in TaskIds : tasks[t].pc # "awaitDisconnect"

\* ------------------------------------------------------- main and the menu
\* C21: when OPENAI_API_KEY, RESEND_API_KEY or MONGODB_URI is unset or
\* empty, the agent is never constructed, no database connection is
\* attempted, the menu is never shown, and main() has exited with status 1
\* as soon as it has taken its first step.
C21_StartupGate ==
  (\E varName \in EnvNames : Falsy(env[varName])) =>
    /\ glenAgent = <<>>
    /\ connectAttempts = 0
    /\ menus = 0
    /\ mainPc # "start" => (mainPc = "exited" /\ exitCode = <<1>>)

\* main() has exited with status 1 because only MONGODB_URI is unset
C21_Witness ==
  /\ env["OPENAI_API_KEY"] = <<"set">>
  /\ env["RESEND_API_KEY"] = <<"set">>
  /\ env["MONGODB_URI"] = <<>>
  /\ mainPc = "exited"
  /\ exitCode = <<1>>

\* C30: the step that ends handleMenuSelection leads to the 2-second timer
\* with the process running for every action other than 'exit', whatever
\* the handler did, and to exit status 0 for 'exit'; the only step from the
\* timer shows the menu again; once the menu has been shown the process
\* ends only in handling 'exit'.
C30_MenuComesBack ==
  [][ /\ (mainPc \in {"prompt", "handling"} /\ mainPc' \notin {"prompt", "handling"}) =>
           IF handled'[Len(handled')].action = "exit"
           THEN mainPc' = "exited" /\ exitCode' = <<0>>
           ELSE mainPc' = "timer" /\ exitCode' = <<>>
      /\ (mainPc = "timer" /\ mainPc' # "timer") =>
           (mainPc' = "prompt" /\ menus' = menus + 1 /\ exitCode' = <<>>)
      /\ (menus >= 1 /\ exitCode = <<>> /\ exitCode' # <<>>) =>
           handled'[Len(handled')].action = "exit" ]_vars

\* a handler threw, the menu was shown again, an unknown action was handled
\* and the menu was shown a third time
C30_Witness ==
  /\ Len(handled) = 2
  /\ handled[1].outcome = "throws"
  /\ handled[2].action = "unknown"
  /\ menus = 3
  /\ mainPc = "prompt"

\* ------------------------------------------------------------------ leads
\* C29: an addLead whose findOne found a lead with its e-mail throws
\* 'Lead with this email already exists' without calling save(), and no two
\* addLead calls with the same e-mail have both passed the findOne check and
\* called save().
C29_LeadEmailUnique ==
  /\ \A a \in 1..Len(adders) :
       adders[a].found =>
         /\ adders[a].pc = "threw"
         /\ adders[a].outcome = "Lead with this email already exists"
  /\ \A a \in 1..Len(adders) : \A b \in 1..Len(adders) :
       (a # b /\ adders[a].email = adders[b].email) =>
         ~(adders[a].pc = "awaitSave" /\ adders[b].pc = "awaitSave")

====
